---- MODULE Spec2Model ----
(***************************************************************************)
(* Model of the insider-trading signal engine of joeltapper/Stocks:        *)
(*   - calculate_signal_strength (src/app.py and src/scheduler.py),        *)
(*   - detect_clusters and the dashboard's ranking tables (src/app.py),    *)
(*   - run_alert_check, the scheduler's top pick (src/scheduler.py).       *)
(*                                                                         *)
(* Text (titles, trade types) is a sequence of one-character strings, so   *)
(* that str.lower() and the substring test `kw in title` are computed.     *)
(* Prices are held in cents (2.00 is 200), dates in whole days.            *)
(***************************************************************************)
EXTENDS Integers, Sequences, FiniteSets, TLC

VARIABLES
    row,          \* the row handed to calculate_signal_strength
    appScore,     \* return value of app.py's calculate_signal_strength(row)
    schedScore,   \* return value of scheduler.py's calculate_signal_strength(row)
    scored,       \* which of the two scorers have returned
    data,         \* app.py: the scored purchases frame (sequence of rows)
    days_window,  \* detect_clusters argument
    min_insiders, \* detect_clusters argument
    clusters,     \* detect_clusters: the list `clusters` it returns
    emitted,      \* detect_clusters: per appended cluster, the locals r and window
    ranked,       \* app.py: clusters.sort_values('ClusterScore', ascending=False)
    table,        \* the scraped OpenInsider table (sequence of raw rows)
    top5,         \* app.py: data.nlargest(5, 'SignalStrength'), as row labels
    top,          \* scheduler.py: label of the row picked by run_alert_check
    outcome,      \* how the last call ended: "none", "ok" or the exception raised
    pc            \* position of the modelled call or script

vars == <<row, appScore, schedScore, scored, data, days_window, min_insiders,
          clusters, emitted, ranked, table, top5, top, outcome, pc>>

-----------------------------------------------------------------------------
(* Text.                                                                   *)

UpperChars == <<"A", "B", "C", "D", "E", "F", "G", "H", "I", "J", "K", "L", "M",
                "N", "O", "P", "Q", "R", "S", "T", "U", "V", "W", "X", "Y", "Z">>
LowerChars == <<"a", "b", "c", "d", "e", "f", "g", "h", "i", "j", "k", "l", "m",
                "n", "o", "p", "q", "r", "s", "t", "u", "v", "w", "x", "y", "z">>

\* str.lower(), one character
LowerChar(c) ==
    IF \E i \in DOMAIN UpperChars : UpperChars[i] = c
    THEN LowerChars[CHOOSE i \in DOMAIN UpperChars : UpperChars[i] = c]
    ELSE c

\* str.lower()
Lower(s) == [i \in DOMAIN s |-> LowerChar(s[i])]

\* Python's `kw in s` on strings
Contains(kw, s) ==
    \E i \in 0..(Len(s) - Len(kw)) :
        \A j \in 1..Len(kw) : s[i + j] = kw[j]

K_ceo == <<"c", "e", "o">>
K_chief == <<"c", "h", "i", "e", "f", " ", "e", "x", "e", "c", "u", "t", "i", "v", "e">>
K_cfo == <<"c", "f", "o">>
K_director == <<"d", "i", "r", "e", "c", "t", "o", "r">>
K_officer == <<"o", "f", "f", "i", "c", "e", "r">>
K_purchase == <<"p", "u", "r", "c", "h", "a", "s", "e">>

\* Sample titles and trade types as OpenInsider prints them.
T_CEO == <<"C", "E", "O">>
T_ChiefExec == <<"C", "h", "i", "e", "f", " ", "E", "x", "e", "c", "u", "t", "i", "v", "e",
                 " ", "O", "f", "f", "i", "c", "e", "r">>
T_CFO == <<"C", "F", "O">>
T_CeoCfo == <<"C", "o", "-", "C", "E", "O", " ", "a", "n", "d", " ", "C", "F", "O">>
T_Director == <<"D", "i", "r", "e", "c", "t", "o", "r">>
T_Officer == <<"C", "h", "i", "e", "f", " ", "O", "p", "e", "r", "a", "t", "i", "n", "g",
               " ", "O", "f", "f", "i", "c", "e", "r">>
T_DirCfo == <<"D", "i", "r", ",", " ", "C", "F", "O">>
T_Staff == <<"S", "t", "a", "f", "f", " ", "A", "c", "c", "o", "u", "n", "t", "a", "n", "t">>
T_10pct == <<"1", "0", "%">>
TT_Purchase == <<"P", " ", "-", " ", "P", "u", "r", "c", "h", "a", "s", "e">>
TT_Sale == <<"S", " ", "-", " ", "S", "a", "l", "e">>

-----------------------------------------------------------------------------
(* calculate_signal_strength, both copies.                                 *)

\* the `if row['Shares'] >= ...` chain (identical in both files)
MutSizeTierStacked(shares) ==
    (IF shares >= 1000000 THEN 35 ELSE 0)
    + (IF shares >= 500000 THEN 25 ELSE 0)
    + (IF shares >= 100000 THEN 15 ELSE 0)
    + (IF shares >= 25000 THEN 5 ELSE 0)

MutSizeTierSwapped(shares) ==
    IF shares >= 1000000 THEN 35
    ELSE IF shares >= 500000 THEN 15
    ELSE IF shares >= 100000 THEN 25
    ELSE IF shares >= 25000 THEN 5
    ELSE 0

SizeTier(shares) ==
    IF shares >= 1000000 THEN 35
    ELSE IF shares >= 500000 THEN 25
    ELSE IF shares >= 100000 THEN 15
    ELSE IF shares >= 25000 THEN 5
    ELSE 0

\* the `if row['Price'] <= 2 ... elif row['Price'] <= 5` chain, price in cents
MutPriceTierStrict(price) ==
    IF price < 200 THEN 10
    ELSE IF price < 500 THEN 5
    ELSE 0

PriceTier(price) ==
    IF price <= 200 THEN 10
    ELSE IF price <= 500 THEN 5
    ELSE 0

\* app.py: title chain ('ceo' / 'cfo' / 'director' or 'officer')
AppTitleTier(title) ==
    LET t == Lower(title) IN
    IF Contains(K_ceo, t) THEN 30
    ELSE IF Contains(K_cfo, t) THEN 20
    ELSE IF Contains(K_director, t) \/ Contains(K_officer, t) THEN 10
    ELSE 0

\* scheduler.py: title chain ('ceo' or 'chief executive' / 'cfo' / ...)
SchedTitleTier(title) ==
    LET t == Lower(title) IN
    IF Contains(K_ceo, t) \/ Contains(K_chief, t) THEN 30
    ELSE IF Contains(K_cfo, t) THEN 20
    ELSE IF Contains(K_director, t) \/ Contains(K_officer, t) THEN 10
    ELSE 0

\* app.py calculate_signal_strength(row)
app_calculate_signal_strength(r) ==
    SizeTier(r.Shares) + AppTitleTier(r.Title) + PriceTier(r.Price)

\* scheduler.py calculate_signal_strength(row)
scheduler_calculate_signal_strength(r) ==
    SizeTier(r.Shares) + SchedTitleTier(r.Title) + PriceTier(r.Price)

-----------------------------------------------------------------------------
(* Inputs of the scorer calls.                                             *)

Tickers == {"ABC", "XYZ"}
Insiders == {"A", "B", "C"}
ShareSamples == {0, 24999, 25000, 50000, 99999, 100000, 499999, 500000,
                 999999, 1000000, 1500000}
PriceSamples == {0, 150, 200, 201, 500, 501, 2000}
TitleSamples == {T_CEO, T_ChiefExec, T_CFO, T_CeoCfo, T_Director, T_Officer,
                 T_DirCfo, T_Staff, T_10pct}

ScoreRows ==
    [Ticker : Tickers, InsiderName : {"A"}, TradeDate : {0},
     Title : TitleSamples, Shares : ShareSamples, Price : PriceSamples]

NoRow == [Ticker |-> "ABC", InsiderName |-> "A", TradeDate |-> 0,
          Title |-> T_Staff, Shares |-> 0, Price |-> 0]

\* Values of the variables a specification does not use.
IdleScorer ==
    /\ row = NoRow
    /\ appScore = 0
    /\ schedScore = 0
    /\ scored = {}

IdleDetect ==
    /\ data = <<>>
    /\ days_window = 0
    /\ min_insiders = 0
    /\ clusters = <<>>
    /\ emitted = <<>>
    /\ ranked = <<>>

IdleRank ==
    /\ table = <<>>
    /\ top5 = <<>>
    /\ top = 0

scorerVars == <<row, appScore, schedScore, scored>>
detectVars == <<data, days_window, min_insiders, clusters, emitted, ranked>>
rankVars == <<table, top5, top>>

-----------------------------------------------------------------------------
(* Specification SpecScore: the two scorers applied to one row.            *)

InitScore ==
    /\ row \in ScoreRows
    /\ appScore = 0
    /\ schedScore = 0
    /\ scored = {}
    /\ IdleDetect
    /\ IdleRank
    /\ outcome = "none"
    /\ pc = "score"

\* d.apply(calculate_signal_strength, axis=1) on one row, app.py
AppScore ==
    /\ pc = "score"
    /\ "app" \notin scored
    /\ appScore' = app_calculate_signal_strength(row)
    /\ scored' = scored \cup {"app"}
    /\ UNCHANGED <<row, schedScore, detectVars, rankVars, outcome, pc>>

\* df.apply(calculate_signal_strength, axis=1) on one row, scheduler.py
SchedScore ==
    /\ pc = "score"
    /\ "scheduler" \notin scored
    /\ schedScore' = scheduler_calculate_signal_strength(row)
    /\ scored' = scored \cup {"scheduler"}
    /\ UNCHANGED <<row, appScore, detectVars, rankVars, outcome, pc>>

NextScore == AppScore \/ SchedScore

SpecScore == InitScore /\ [][NextScore]_vars

-----------------------------------------------------------------------------
(* detect_clusters (src/app.py) and the ranking of its result.             *)

MaxRecords == 3

DateSamples == {0, 1, 2}
WindowSamples == {0, 1, 7}
MinSamples == {0, 2, 3, 4}

\* Sample attributes: a title per insider, a price per ticker, a trade size
\* per day.
TitleOf(i) == IF i = "A" THEN T_CEO ELSE IF i = "B" THEN T_CFO ELSE T_Director
PriceOf(t) == IF t = "ABC" THEN 150 ELSE 2000
SharesOn(d) == IF d = 0 THEN 30000 ELSE IF d = 1 THEN 600000 ELSE 1000000

RawRow(t, i, d, tt) ==
    [Ticker |-> t, InsiderName |-> i, TradeDate |-> d, Title |-> TitleOf(i),
     TradeType |-> tt, Shares |-> SharesOn(d), Price |-> PriceOf(t)]

\* d['SignalStrength'] = d.apply(calculate_signal_strength, axis=1)
WithSignal(r) ==
    [Ticker |-> r.Ticker, InsiderName |-> r.InsiderName, TradeDate |-> r.TradeDate,
     Title |-> r.Title, TradeType |-> r.TradeType, Shares |-> r.Shares,
     Price |-> r.Price, SignalStrength |-> app_calculate_signal_strength(r)]

\* The days each insider of ABC buys on: A on every sample day, B on the last
\* two, C on the last.  Insiders are told apart by name alone, so which of
\* them holds the early dates does not matter.
TradingDays(i) == IF i = "A" THEN DateSamples ELSE IF i = "B" THEN {1, 2} ELSE {2}

\* The purchases of ABC on those days, and one purchase of XYZ.
ScoredPool ==
    {WithSignal(RawRow("ABC", p[1], p[2], TT_Purchase)) :
        p \in {q \in Insiders \X DateSamples : q[2] \in TradingDays(q[1])}}
    \cup {WithSignal(RawRow("XYZ", "A", 1, TT_Purchase))}

Frames(pool, n) == UNION {[1..k -> pool] : k \in 0..n}

\* one result per element, in order: frame.apply(F, axis=1), or a loop that
\* appends F(x) for each x
MapSeq(s, F(_)) ==
    LET RECURSIVE Upto(_)
        Upto(k) == IF k = 0 THEN <<>> ELSE Append(Upto(k - 1), F(s[k]))
    IN  Upto(Len(s))

\* df.groupby('Ticker') walks the tickers in sorted order
TickerRank(t) == IF t = "ABC" THEN 1 ELSE 2

\* order of (group, TradeDate) in which the two loops visit the rows
VisitedBefore(a, b) ==
    \/ TickerRank(a.Ticker) < TickerRank(b.Ticker)
    \/ a.Ticker = b.Ticker /\ a.TradeDate <= b.TradeDate

\* for ticker, grp in df.groupby('Ticker'): grp.sort_values('TradeDate');
\* for _, r in grp.iterrows().  The sort is not stable: rows of one ticker
\* and one date may be visited in any order.  VisitOrders(df, S) is the set
\* of orders in which the rows labelled S can be visited.
RECURSIVE VisitOrders(_, _)
VisitOrders(df, S) ==
    IF S = {} THEN {<<>>}
    ELSE UNION {{<<i>> \o o : o \in VisitOrders(df, S \ {i})} :
                   i \in {x \in S : \A y \in S : VisitedBefore(df[x], df[y])}}

IterationOrders(df) == VisitOrders(df, 1..Len(df))

\* start = r['TradeDate'] - timedelta(days=days_window)
WindowStartOf(r, days) == r.TradeDate - days

\* grp[(grp['TradeDate'] >= start) & (grp['TradeDate'] <= r['TradeDate'])]
MutInWindowNoUpper(x, r, days) ==
    /\ x.Ticker = r.Ticker
    /\ x.TradeDate >= WindowStartOf(r, days)

InWindow(x, r, days) ==
    /\ x.Ticker = r.Ticker
    /\ x.TradeDate >= WindowStartOf(r, days)
    /\ x.TradeDate <= r.TradeDate

Window(df, i, days) == {j \in 1..Len(df) : InWindow(df[j], df[i], days)}

\* window['InsiderName'].nunique()
Nunique(df, w) == Cardinality({df[j].InsiderName : j \in w})

\* window[col].sum()
\* one row per insider summed
RECURSIVE MutSumOfPerInsider(_, _, _)
MutSumOfPerInsider(df, w, col) ==
    IF w = {} THEN 0
    ELSE LET j == CHOOSE x \in w : TRUE
             others == {x \in w : df[x].InsiderName # df[j].InsiderName}
         IN  df[j][col] + MutSumOfPerInsider(df, others, col)

RECURSIVE SumOf(_, _, _)
SumOf(df, w, col) ==
    IF w = {} THEN 0
    ELSE LET j == CHOOSE x \in w : TRUE
         IN  df[j][col] + SumOf(df, w \ {j}, col)

\* if ins >= min_insiders
MutQualifiesStrict(ins, min) == ins > min

MutQualifiesOffByOne(ins, min) == ins >= min - 1

Qualifies(ins, min) == ins >= min

\* the dict appended to clusters
ClusterOf(df, i, days) ==
    LET w == Window(df, i, days)
        ins == Nunique(df, w)
    IN  [Ticker |-> df[i].Ticker,
         WindowStart |-> WindowStartOf(df[i], days),
         EndDate |-> df[i].TradeDate,
         NumInsiders |-> ins,
         TotalShares |-> SumOf(df, w, "Shares"),
         ClusterScore |-> SumOf(df, w, "SignalStrength") + ins * 5]

\* anchors of one ticker and one date collapsed into the first one visited
MutAnchorsDedup(df, order, days, min) ==
    LET Passes(i) == Qualifies(Nunique(df, Window(df, i, days)), min)
        hits == SelectSeq(order, Passes)
        First(k) == \A x \in 1..(k - 1) :
                        \/ df[hits[x]].Ticker # df[hits[k]].Ticker
                        \/ df[hits[x]].TradeDate # df[hits[k]].TradeDate
        kept == SelectSeq([k \in 1..Len(hits) |-> k], First)
        At(k) == hits[k]
    IN  MapSeq(kept, At)

\* the anchors, in visiting order, whose window passes the threshold
Anchors(df, order, days, min) ==
    LET Passes(i) == Qualifies(Nunique(df, Window(df, i, days)), min)
    IN  SelectSeq(order, Passes)

\* a sliding window that only holds the rows visited so far
MutDetectTwoPointer(df, days, min, order) ==
    LET Seen(k) == {order[x] : x \in 1..k}
        Win(k) == Window(df, order[k], days) \cap Seen(k)
        Emit(k) == [Ticker |-> df[order[k]].Ticker,
                    WindowStart |-> WindowStartOf(df[order[k]], days),
                    EndDate |-> df[order[k]].TradeDate,
                    NumInsiders |-> Nunique(df, Win(k)),
                    TotalShares |-> SumOf(df, Win(k), "Shares"),
                    ClusterScore |-> SumOf(df, Win(k), "SignalStrength")
                                       + Nunique(df, Win(k)) * 5]
        Passes(k) == Qualifies(Nunique(df, Win(k)), min)
        hits == SelectSeq([k \in 1..Len(order) |-> k], Passes)
    IN  MapSeq(hits, Emit)

\* detect_clusters(df, days_window, min_insiders), rows visited in `order`
detect_clusters(df, days, min, order) ==
    LET Emit(i) == ClusterOf(df, i, days)
    IN  MapSeq(Anchors(df, order, days, min), Emit)

\* frame.sort_values(col, ascending=False) with the default, unstable sort
\* kind: any order of the row labels S with non-increasing values.
RECURSIVE DescOrders(_, _, _)
DescOrders(frame, S, col) ==
    IF S = {} THEN {<<>>}
    ELSE UNION {{<<i>> \o o : o \in DescOrders(frame, S \ {i}, col)} :
                   i \in {x \in S : \A y \in S : frame[x][col] >= frame[y][col]}}

SortValuesDesc(frame, col) == DescOrders(frame, 1..Len(frame), col)

\* frame.nlargest(n, col), keep='first': the n largest values in descending
\* order, equal values in the order of their row labels.
NLargest(frame, n, col) ==
    LET Before(j, i) ==
            \/ frame[j][col] > frame[i][col]
            \/ frame[j][col] = frame[i][col] /\ j < i
        Place(i) == 1 + Cardinality({j \in 1..Len(frame) : Before(j, i)})
        m == IF n < Len(frame) THEN n ELSE Len(frame)
    IN  [k \in 1..m |-> CHOOSE i \in 1..Len(frame) : Place(i) = k]

-----------------------------------------------------------------------------
(* Specification Spec: one call of detect_clusters.                        *)

Init ==
    /\ IdleScorer
    /\ data \in Frames(ScoredPool, MaxRecords)
    /\ days_window = 0
    /\ min_insiders = 0
    /\ clusters = <<>>
    /\ emitted = <<>>
    /\ ranked = <<>>
    /\ IdleRank
    /\ outcome = "none"
    /\ pc = "call"

\* clusters = detect_clusters(data, days_window=w, min_insiders=m).  The
\* function checks neither argument and raises nothing on well-typed rows.
DetectClusters ==
    /\ pc = "call"
    /\ \E order \in IterationOrders(data) :
        \E w \in WindowSamples, m \in MinSamples :
            LET a == Anchors(data, order, w, m) IN
            /\ days_window' = w
            /\ min_insiders' = m
            /\ clusters' = detect_clusters(data, w, m, order)
            /\ emitted' = [k \in 1..Len(a) |->
                              [anchor |-> a[k], window |-> Window(data, a[k], w)]]
    /\ outcome' = "ok"
    /\ pc' = "returned"
    /\ UNCHANGED <<scorerVars, data, ranked, rankVars>>

Next == DetectClusters

Spec == Init /\ [][Next]_vars

-----------------------------------------------------------------------------
(* Properties of detect_clusters, checked under Spec.                      *)

Returned == pc = "returned"

\* labels of the rows of `data` with ticker t and TradeDate in [lo, hi]
RowsBetween(t, lo, hi) ==
    {j \in 1..Len(data) :
        data[j].Ticker = t /\ data[j].TradeDate >= lo /\ data[j].TradeDate <= hi}

InsidersOf(S) == {data[j].InsiderName : j \in S}

\* C5: with days_window >= 1 and min_insiders >= 1, every emitted cluster has
\* NumInsiders >= min_insiders, NumInsiders being the number of distinct
\* insiders among the rows of the cluster's ticker dated within its window.
C5_CountAtLeastMin ==
    (Returned /\ days_window >= 1 /\ min_insiders >= 1) =>
        \A k \in DOMAIN clusters :
            /\ clusters[k].NumInsiders >= min_insiders
            /\ clusters[k].NumInsiders =
                 Cardinality(InsidersOf(RowsBetween(clusters[k].Ticker,
                     clusters[k].WindowStart, clusters[k].EndDate)))

\* a call with in-range arguments that emitted for some anchors and not for
\* others
C5_Witness ==
    /\ Returned
    /\ days_window = 1
    /\ min_insiders = 2
    /\ Len(data) = 3
    /\ Len(clusters) = 1
    /\ clusters[1].NumInsiders = 2

\* C6: for every emitted cluster EndDate is the anchor's TradeDate,
\* WindowStart is EndDate - days_window, and the rows counted into it are
\* exactly the rows of its ticker dated in [WindowStart, EndDate], both ends
\* included.
C6_WindowBounds ==
    Returned =>
        /\ Len(emitted) = Len(clusters)
        /\ \A k \in DOMAIN clusters :
            LET c == clusters[k]
                e == emitted[k]
            IN  /\ c.EndDate = data[e.anchor].TradeDate
                /\ c.Ticker = data[e.anchor].Ticker
                /\ c.WindowStart = c.EndDate - days_window
                /\ \A j \in e.window :
                    /\ data[j].Ticker = c.Ticker
                    /\ data[j].TradeDate >= c.WindowStart
                    /\ data[j].TradeDate <= c.EndDate
                /\ RowsBetween(c.Ticker, c.WindowStart, c.EndDate) \subseteq e.window

\* a window that holds a row dated exactly WindowStart and leaves out an
\* earlier row of the same ticker
C6_Witness ==
    /\ Returned
    /\ days_window = 1
    /\ \E k \in DOMAIN clusters :
        /\ clusters[k].EndDate = 2
        /\ \E j \in emitted[k].window : data[j].TradeDate = clusters[k].WindowStart
        /\ \E j \in 1..Len(data) :
            /\ data[j].Ticker = clusters[k].Ticker
            /\ data[j].TradeDate < clusters[k].WindowStart
            /\ j \notin emitted[k].window

\* exactly three rows, one ticker, three distinct insiders, all dated within a
\* 3-day span, days_window = 7
ThreeInsiderScenario ==
    /\ Returned
    /\ Len(data) = 3
    /\ \A i, j \in 1..3 : data[i].Ticker = data[j].Ticker
    /\ Cardinality(InsidersOf(1..3)) = 3
    /\ \A i, j \in 1..3 : data[i].TradeDate - data[j].TradeDate < 3
    /\ days_window = 7

LatestRows == {j \in 1..Len(data) : \A i \in 1..Len(data) : data[i].TradeDate <= data[j].TradeDate}

\* C7 as stated: in the scenario, min_insiders = 3 gives exactly one cluster,
\* with NumInsiders = 3, and min_insiders = 4 gives none.
C7_ExactlyOneCluster ==
    ThreeInsiderScenario =>
        /\ min_insiders = 3 => (Len(clusters) = 1 /\ clusters[1].NumInsiders = 3)
        /\ min_insiders = 4 => Len(clusters) = 0

\* C7 as amended: in the scenario, min_insiders = 3 gives one cluster per row
\* dated on the latest of the three dates (one, when a single row holds that
\* date), each with NumInsiders = 3, and min_insiders = 4 gives none.
C7_OnePerLatestRow ==
    ThreeInsiderScenario =>
        /\ min_insiders = 3 =>
            /\ Len(clusters) = Cardinality(LatestRows)
            /\ \A k \in DOMAIN clusters : clusters[k].NumInsiders = 3
        /\ min_insiders = 4 => Len(clusters) = 0

C7_Witness ==
    /\ ThreeInsiderScenario
    /\ min_insiders = 3
    /\ Cardinality(LatestRows) = 1
    /\ Len(clusters) = 1
    /\ clusters[1].NumInsiders = 3

\* C10: a call with days_window < 1 or min_insiders < 1 ends in an error and
\* emits no cluster.
C10_FailFast ==
    (Returned /\ (days_window < 1 \/ min_insiders < 1)) =>
        /\ outcome # "ok"
        /\ clusters = <<>>

\* a second run on the same frame with the same arguments; the order its
\* unstable sort visits equal dates in is one of IterationOrders, fixed here
\* for the whole frame, so that every first run is compared with the same
\* second run and any two runs that differ are told apart
RunAgain(df, days, min) ==
    detect_clusters(df, days, min, CHOOSE order \in IterationOrders(df) : TRUE)

\* C11: a call of detect_clusters leaves the input frame as it was (no row
\* added, removed, reordered or modified), and a further run on that frame
\* with the same arguments returns the same clusters in the same order,
\* whichever order the sort visited rows of equal date in.
C11_Idempotent ==
    [][(pc = "call" /\ pc' = "returned") =>
          /\ data' = data
          /\ clusters' = RunAgain(data', days_window', min_insiders')]_vars

\* a call that emitted clusters on a frame the sort can visit in several
\* orders (two rows of one ticker and one date)
C11_Witness ==
    /\ Returned
    /\ days_window = 7
    /\ min_insiders = 2
    /\ Len(clusters) >= 2
    /\ Cardinality(IterationOrders(data)) > 1

\* the rows of `data` whose trailing window over their own ticker holds at
\* least min_insiders distinct insiders
QualifyingAnchors ==
    {i \in 1..Len(data) :
        Cardinality(InsidersOf(RowsBetween(data[i].Ticker,
                                           data[i].TradeDate - days_window,
                                           data[i].TradeDate))) >= min_insiders}

EmittedAnchors == {emitted[k].anchor : k \in 1..Len(emitted)}

SameTickerAndDate(i, j) ==
    data[i].Ticker = data[j].Ticker /\ data[i].TradeDate = data[j].TradeDate

\* C12: detect_clusters emits exactly one cluster for each row whose trailing
\* window [TradeDate - days_window, TradeDate] over its own ticker holds at
\* least min_insiders distinct insiders and none for any other row; so the
\* number of clusters is the number of such rows, never more than the number
\* of rows, and two anchors of one ticker and one TradeDate give two clusters
\* with equal fields.
C12_OnePerQualifyingAnchor ==
    Returned =>
        /\ Len(emitted) = Len(clusters)
        /\ EmittedAnchors = QualifyingAnchors
        /\ Len(clusters) = Cardinality(QualifyingAnchors)
        /\ Len(clusters) <= Len(data)
        /\ \A k \in 1..Len(clusters) :
              /\ clusters[k].Ticker = data[emitted[k].anchor].Ticker
              /\ clusters[k].EndDate = data[emitted[k].anchor].TradeDate
        /\ \A k, l \in 1..Len(clusters) :
              SameTickerAndDate(emitted[k].anchor, emitted[l].anchor)
                  => clusters[k] = clusters[l]

\* two qualifying anchors of one ticker and one date, both emitted, next to a
\* row that does not qualify
C12_Witness ==
    /\ Returned
    /\ min_insiders >= 2
    /\ \E k, l \in 1..Len(clusters) :
          /\ k # l
          /\ SameTickerAndDate(emitted[k].anchor, emitted[l].anchor)
          /\ clusters[k] = clusters[l]
    /\ \E i \in 1..Len(data) : i \notin QualifyingAnchors

\* the sum of a column over the rows S of `data`, every row counted once
RECURSIVE TotalOver(_, _)
TotalOver(S, col) ==
    IF S = {} THEN 0
    ELSE LET j == CHOOSE x \in S : TRUE
         IN  data[j][col] + TotalOver(S \ {j}, col)

\* the rows of the cluster's ticker dated within [WindowStart, EndDate]
RowsOfCluster(c) == RowsBetween(c.Ticker, c.WindowStart, c.EndDate)

\* C13: for every emitted cluster, TotalShares is the sum of Shares over all
\* rows of the cluster's ticker dated in [WindowStart, EndDate], every row
\* counted once even when one insider has several of them, and ClusterScore
\* is the sum of SignalStrength over the same rows plus 5 times NumInsiders;
\* rows of other tickers never contribute.
C13_Aggregates ==
    Returned =>
        \A k \in 1..Len(clusters) :
            LET c == clusters[k]
                S == RowsOfCluster(c)
            IN  /\ c.TotalShares = TotalOver(S, "Shares")
                /\ c.ClusterScore =
                       TotalOver(S, "SignalStrength") + 5 * c.NumInsiders

\* a cluster of two insiders whose window holds two trades of one of them
C13_Witness ==
    /\ Returned
    /\ min_insiders = 2
    /\ \E k \in 1..Len(clusters) :
          LET c == clusters[k]
              S == RowsOfCluster(c)
          IN  /\ c.NumInsiders = 2
              /\ Cardinality(S) = 3
              /\ c.TotalShares > 0

-----------------------------------------------------------------------------
(* Specification SpecRank: one run of the dashboard script on a scraped    *)
(* table (refresh, tables, cluster analysis) or one run of the scheduler's *)
(* run_alert_check on it.                                                  *)

MaxRows == 6

\* str.contains('purchase', case=False, na=False)
IsPurchase(r) == Contains(K_purchase, Lower(r.TradeType))

\* df["SignalStrength"] = df.apply(calculate_signal_strength, axis=1), scheduler.py
SchedWithSignal(r) ==
    [Ticker |-> r.Ticker, InsiderName |-> r.InsiderName, TradeDate |-> r.TradeDate,
     Title |-> r.Title, TradeType |-> r.TradeType, Shares |-> r.Shares,
     Price |-> r.Price, SignalStrength |-> scheduler_calculate_signal_strength(r)]

\* Seven distinct filings: six purchases (scores 45, 55, 55, 75, 55, 45) and
\* one sale.
RawPool ==
    {RawRow("ABC", "A", 0, TT_Purchase), RawRow("ABC", "B", 1, TT_Purchase),
     RawRow("ABC", "C", 2, TT_Purchase), RawRow("ABC", "A", 2, TT_Purchase),
     RawRow("XYZ", "A", 1, TT_Purchase), RawRow("XYZ", "B", 1, TT_Purchase),
     RawRow("ABC", "C", 1, TT_Sale)}

\* tables of at most n distinct filings
Tables(pool, n) ==
    {t \in Frames(pool, n) : \A i, j \in DOMAIN t : i # j => t[i] # t[j]}

\* sidebar defaults: number_input("Min insiders for cluster", 2, 10, 3) and
\* number_input("Cluster window days", 1, 30, 7)
SidebarMinInsiders == {3}
SidebarWindowDays == {7}

InitRank ==
    /\ IdleScorer
    /\ table \in Tables(RawPool, MaxRows)
    /\ data = <<>>
    /\ days_window \in SidebarWindowDays
    /\ min_insiders \in SidebarMinInsiders
    /\ clusters = <<>>
    /\ emitted = <<>>
    /\ ranked = <<>>
    /\ top5 = <<>>
    /\ top = 0
    /\ outcome = "none"
    /\ pc = "start"

\* app.py `if refresh:` -- keep the purchases, score them, concat with
\* ignore_index=True (the rows are relabelled 1..n in table order)
Refresh ==
    /\ pc = "start"
    /\ data' = MapSeq(SelectSeq(table, IsPurchase), WithSignal)
    /\ pc' = "fetched"
    /\ UNCHANGED <<scorerVars, days_window, min_insiders, clusters, emitted, ranked,
                   rankVars, outcome>>

\* app.py `if data.empty: st.stop()`, then the two tables
ShowTables ==
    /\ pc = "fetched"
    /\ IF data = <<>>
       THEN /\ pc' = "stopped"
            /\ top5' = top5
       ELSE /\ pc' = "tables"
            /\ top5' = NLargest(data, 5, "SignalStrength")
    /\ UNCHANGED <<scorerVars, detectVars, table, top, outcome>>

\* app.py "Cluster analysis": detect_clusters, then, if not clusters.empty,
\* the table sorted by ClusterScore
ClusterAnalysis ==
    /\ pc = "tables"
    /\ \E order \in IterationOrders(data) :
        LET a == Anchors(data, order, days_window, min_insiders)
            found == detect_clusters(data, days_window, min_insiders, order)
        IN  /\ clusters' = found
            /\ emitted' = [k \in 1..Len(a) |->
                   [anchor |-> a[k], window |-> Window(data, a[k], days_window)]]
            /\ IF found = <<>>
               THEN ranked' = <<>>
               ELSE ranked' \in SortValuesDesc(found, "ClusterScore")
    /\ pc' = "done"
    /\ UNCHANGED <<scorerVars, data, days_window, min_insiders, rankVars, outcome>>

\* scheduler.py run_alert_check(label): either no table of the page has the
\* two date columns, or the table is scored, filtered to purchases and the
\* first row of sort_values("SignalStrength", ascending=False) is sent.
\* .iloc[0] on an empty frame raises IndexError.
RunAlertCheck ==
    /\ pc = "start"
    /\ \E valid \in BOOLEAN :
        IF ~valid
        THEN /\ outcome' = "no_table"
             /\ top' = top
        ELSE LET df == MapSeq(table, SchedWithSignal)
                 kept == {i \in 1..Len(table) : IsPurchase(df[i])}
             IN  IF kept = {}
                 THEN /\ outcome' = "IndexError"
                      /\ top' = top
                 ELSE /\ outcome' = "sent"
                      /\ \E o \in DescOrders(df, kept, "SignalStrength") : top' = o[1]
    /\ pc' = "alerted"
    /\ UNCHANGED <<scorerVars, detectVars, table, top5>>

NextRank == Refresh \/ ShowTables \/ ClusterAnalysis \/ RunAlertCheck

SpecRank == InitRank /\ [][NextRank]_vars

-----------------------------------------------------------------------------
(* Properties of the rankings, checked under SpecRank.                     *)

MinOf(a, b) == IF a < b THEN a ELSE b

\* result is the stable top-k of the rows labelled S of frame by col: k rows
\* (all of S if fewer), in non-increasing order of col, equal values in label
\* order, and no row left out that ranks before a chosen one.
IsStableTop(result, frame, S, k, col) ==
    LET Before(i, j) ==
            \/ frame[i][col] > frame[j][col]
            \/ frame[i][col] = frame[j][col] /\ i < j
        chosen == {result[x] : x \in DOMAIN result}
    IN  /\ Len(result) = MinOf(k, Cardinality(S))
        /\ chosen \subseteq S
        /\ \A x, y \in DOMAIN result : x < y => Before(result[x], result[y])
        /\ \A i \in chosen, j \in S \ chosen : Before(i, j)

PurchaseLabels == {i \in 1..Len(table) : IsPurchase(table[i])}

SchedFrame == MapSeq(table, SchedWithSignal)

\* C8: each ranking is the stable top-K: the dashboard's top 5 by
\* SignalStrength, the dashboard's cluster table by ClusterScore (K = all),
\* and the scheduler's pick (K = 1) among the purchases.
C8_StableTopK ==
    /\ pc \in {"tables", "done"} =>
         IsStableTop(top5, data, 1..Len(data), 5, "SignalStrength")
    /\ (pc = "done" /\ clusters # <<>>) =>
         IsStableTop(ranked, clusters, 1..Len(clusters), Len(clusters), "ClusterScore")
    /\ (pc = "alerted" /\ outcome # "no_table") =>
         /\ outcome = "sent"
         /\ IsStableTop(IF top = 0 THEN <<>> ELSE <<top>>, SchedFrame,
                        PurchaseLabels, 1, "SignalStrength")

\* C9: the scheduler's alert check, run on a table that holds no purchase,
\* completes without raising and selects nothing; the dashboard, when no
\* purchase remains, stops without a table or a cluster.
C9_EmptyIsNotAnError ==
    /\ (pc = "alerted" /\ outcome # "no_table" /\ PurchaseLabels = {}) =>
         /\ outcome # "IndexError"
         /\ top = 0
    /\ (pc = "stopped") =>
         /\ top5 = <<>>
         /\ clusters = <<>>
         /\ outcome # "IndexError"

-----------------------------------------------------------------------------
(* Properties of the scorers, checked under SpecScore.                     *)

\* The weights as the specification words them.
StatedSeniority(title) ==
    LET t == Lower(title) IN
    IF Contains(K_ceo, t) \/ Contains(K_chief, t) THEN 30
    ELSE IF Contains(K_cfo, t) THEN 20
    ELSE IF Contains(K_director, t) \/ Contains(K_officer, t) THEN 10
    ELSE 0

StatedSize(shares) ==
    CASE shares >= 1000000 -> 35
      [] shares < 1000000 /\ shares >= 500000 -> 25
      [] shares < 500000 /\ shares >= 100000 -> 15
      [] shares < 100000 /\ shares >= 25000 -> 5
      [] OTHER -> 0

StatedPrice(price) ==
    CASE price <= 200 -> 10
      [] price > 200 /\ price <= 500 -> 5
      [] OTHER -> 0

NoSeniorityKeyword(title) ==
    LET t == Lower(title) IN
    \A kw \in {K_ceo, K_chief, K_cfo, K_director, K_officer} : ~Contains(kw, t)

Untitled(r) == [r EXCEPT !.Title = <<>>]

\* C1: in both scorers the seniority contribution of the title (the score of
\* the row less the score of the same row without a title) is +30 for "ceo" or
\* "chief executive", else +20 for "cfo", else +10 for "director" or
\* "officer", else +0.  The dashboard's scorer breaks it.
C1_SeniorityBothScorers ==
    /\ "app" \in scored =>
         appScore - app_calculate_signal_strength(Untitled(row))
            = StatedSeniority(row.Title)
    /\ "scheduler" \in scored =>
         schedScore - scheduler_calculate_signal_strength(Untitled(row))
            = StatedSeniority(row.Title)

\* C2: a row whose title matches no seniority keyword scores exactly the size
\* weight plus the price weight, thresholds inclusive, in both scorers.
C2_SizePlusPrice ==
    NoSeniorityKeyword(row.Title) =>
        /\ "app" \in scored =>
             appScore = StatedSize(row.Shares) + StatedPrice(row.Price)
        /\ "scheduler" \in scored =>
             schedScore = StatedSize(row.Shares) + StatedPrice(row.Price)

C2_Witness ==
    /\ scored = {"app", "scheduler"}
    /\ row.Title = T_Staff
    /\ row.Shares = 50000
    /\ row.Price = 2000
    /\ appScore = 5
    /\ schedScore = 5

\* C3: with shares >= 0 and price >= 0 the score lies in 0..75, and rows equal
\* in (shares, price, title) get the score this row got, whatever their other
\* fields.
C3_RangeAndInputs ==
    (row.Shares >= 0 /\ row.Price >= 0) =>
        /\ "app" \in scored =>
             /\ appScore \in 0..75
             /\ \A r2 \in ScoreRows :
                    (r2.Shares = row.Shares /\ r2.Price = row.Price
                        /\ r2.Title = row.Title)
                    => app_calculate_signal_strength(r2) = appScore
        /\ "scheduler" \in scored =>
             /\ schedScore \in 0..75
             /\ \A r2 \in ScoreRows :
                    (r2.Shares = row.Shares /\ r2.Price = row.Price
                        /\ r2.Title = row.Title)
                    => scheduler_calculate_signal_strength(r2) = schedScore

C3_Witness ==
    /\ scored = {"app", "scheduler"}
    /\ row.Title = T_CEO
    /\ row.Shares = 1500000
    /\ row.Price = 150
    /\ appScore = 75
    /\ schedScore = 75

\* C4: for the row's title and price, no smaller share count scores higher
\* than the row does.
C4_SharesMonotone ==
    \A s2 \in ShareSamples :
        s2 < row.Shares =>
            /\ "app" \in scored =>
                 app_calculate_signal_strength([row EXCEPT !.Shares = s2])
                    <= appScore
            /\ "scheduler" \in scored =>
                 scheduler_calculate_signal_strength([row EXCEPT !.Shares = s2])
                    <= schedScore

C4_Witness ==
    /\ scored = {"app", "scheduler"}
    /\ row.Shares = 500000
    /\ row.Title = T_Director
    /\ row.Price = 501
    /\ appScore = 35
    /\ app_calculate_signal_strength([row EXCEPT !.Shares = 499999]) = 25

====
